---- MODULE Spec2Model ----
(***************************************************************************)
(* Unlabelled rooted trees and endofunction structures                     *)
(* (caleblevy/endofunction-structures).                                    *)
(*                                                                         *)
(* Level sequences are Python lists/tuples; they are modelled as TLA+      *)
(* sequences, Python index i being TLA+ index i+1 (see At).                *)
(***************************************************************************)
EXTENDS Integers, Sequences, FiniteSets, TLC

\* ------------------------------------------------------------------ bounds
\* largest node count given to the tree enumerator
MaxNodes == 7
\* root heights the enumerator is started with: 1 is RootedTrees
\* (src/rootedtrees.py:179), 0 is TreeEnumerator's default
RootHeights == {0, 1}
\* longest level sequence given to canonical_treeorder
MaxLen == 6
\* largest tree whose nodes are relabelled
MaxLabelNodes == 4
\* largest n given to endofunction_structures
MaxStructN == 5
\* largest n given to forests_simple and forests_complex
MaxForestN == 6
\* largest n of the endofunctions on range(n) given to funccycles, imagepath,
\* attached_treenodes and enumerate_cycles
MaxFuncN == 4
\* largest n of the data on range(n) given to the function constructors
MaxDataN == 3

\* --------------------------------------------------------- Python helpers
\* Python list indexing t[i], negative indices counting from the end
At(t, i) == IF i >= 0 THEN t[i + 1] ELSE t[Len(t) + i + 1]

\* Python's range(a, b) as a list
Range(a, b) == [i \in 1..(b - a) |-> a + i - 1]

\* Python slice t[i:], 0 <= i
SliceFrom(t, i) == SubSeq(t, i + 1, Len(t))

\* Python list assignment l[i] = v; the result is the list after it
SetAt(l, i, v) ==
    LET k == IF i >= 0 THEN i + 1 ELSE Len(l) + i + 1
    IN  SubSeq(l, 1, k - 1) \o <<v>> \o SubSeq(l, k + 1, Len(l))

\* Python comparison a < b of two lists of integers
RECURSIVE ListLess(_, _)
ListLess(a, b) ==
    IF a = <<>> THEN b # <<>>
    ELSE IF b = <<>> THEN FALSE
    ELSE IF Head(a) # Head(b) THEN Head(a) < Head(b)
    ELSE ListLess(Tail(a), Tail(b))

RECURSIVE factorial(_)
factorial(k) == IF k <= 1 THEN 1 ELSE k * factorial(k - 1)

RECURSIVE Pow(_, _)
Pow(b, e) == IF e = 0 THEN 1 ELSE b * Pow(b, e - 1)

\* nestops.flatten: concatenation of a list of lists
RECURSIVE flatten(_)
flatten(ll) == IF ll = <<>> THEN <<>> ELSE Head(ll) \o flatten(Tail(ll))

\* -------------------------------------------------------------- state
\* RootedTrees.__iter__ / TreeEnumerator.__iter__ and the loop of
\* testDegeneracy that consumes it; yielded is the list of the values of
\* tree at each yield, as the consumer reads them before resuming.
\* enumerator is the class iterated; collected is the list a consumer builds
\* of the objects yielded, as it reads now: RootedTrees yields its list tree
\* itself every time, TreeEnumerator a new tuple DominantTree(tree)
VARIABLES node_count, root_height, tree, pc, p, q, yielded,
          labelled_treecount, enumerator, collected

\* canonical_treeorder applied to a level sequence; tree_to_func and
\* func_form applied to it without a permutation
VARIABLES ordered_tree, dominant_tree, treefunc, formfunc, cpc

\* a tree of rooted_trees(n), its degeneracy and a relabelling of its
\* function form (the loop bodies of testDegeneracy and testTreefuncToTree),
\* and the tree treefunc_to_tree gives back for the relabelled function
VARIABLES ltree, lperm, rtreefunc, rtree, ldeg, lpc

\* endofunction_structures(n) and the loops of testStructures,
\* testMultipliciy and iterate_imagedist_endofunction that consume it; M is
\* the matrix of iterate_imagedist_endofunction as the list of its rows
VARIABLES sn, stree, sforest, smsets, spending, sstruct, smult, structs,
          struct_count, func_count, M, spc

treeVars == <<node_count, root_height, tree, pc, p, q, yielded,
              labelled_treecount, enumerator, collected>>

canonVars == <<ordered_tree, dominant_tree, treefunc, formfunc, cpc>>

labelVars == <<ltree, lperm, rtreefunc, rtree, ldeg, lpc>>

structVars == <<sn, stree, sforest, smsets, spending, sstruct, smult, structs,
                struct_count, func_count, M, spc>>

\* RootedTrees._calculate_len / TreeEnumerator.cardinality: self.n, the list
\* T, the loop variables n and i, the term s last added to T[n], the
\* remainder of T[n] by n-1 at the last floor division, the value returned
VARIABLES len_n, T, ln, li, ls, lrem, lcount, lenpc

lenVars == <<len_n, T, ln, li, ls, lrem, lcount, lenpc>>

\* forests_simple(N) and forests_complex(n) run one after the other, as in
\* testForests: the tree of rooted_trees(N+1) being chopped, the forests of
\* forests_complex still to be yielded, and the forests each has yielded
VARIABLES fn, ftree, fpending, fsimple, fcomplex, fpc

\* ForestEnumerator(fn) run after them: the tree of TreeEnumerator(fn+1)
\* being chopped and the forests yielded, each Multiset of trees written as
\* the list of its trees
VARIABLES etree, fenum

forestVars == <<fn, ftree, fpending, fsimple, fcomplex, fpc, etree, fenum>>

\* an endofunction ef on range(n) as a list, the results of funccycles,
\* imagepath and attached_treenodes on it, and the state of the generator
\* Endofunction.enumerate_cycles: its sets tried, cyclic and remaining, the
\* cycles yielded so far; ancestors is Endofunction.acyclic_ancestors
VARIABLES ef, fcycles, fpath, fnodes, tried, cyclic, remaining, ecycles,
          ancestors, epc

\* what Endofunction.tree_form() and DominantTree.from_func(f) give on ef:
\* the tree returned or the name of the exception raised
VARIABLES tform, ffunc

\* the list path of enumerate_cycles as it stands when the inner loop of the
\* pass just made has ended
VARIABLES walk

funcVars == <<ef, fcycles, fpath, fnodes, tried, cyclic, remaining, ecycles,
              ancestors, epc, tform, ffunc, walk>>

\* a constructor or enumerator called at its boundary: the class, its
\* argument (the data of a function as the list of its values on range(n), or
\* a node count), the outcome ("object" or the exception raised) and the
\* results an enumerator has yielded
VARIABLES cclass, carg, cresult, cyield, conspc

consVars == <<cclass, carg, cresult, cyield, conspc>>

vars == <<treeVars, canonVars, labelVars, structVars, lenVars, forestVars, funcVars, consVars>>

\* ------------------------------------------------------ tree enumeration
\* tree = [I+1 for I in range(n)] / list(range(root_height, n+root_height))
FirstTree(n, h) == Range(h, n + h)

\* ScanP without its scan: p stays at n-1
ScanP_none(t, pp) == pp

\* p = n-1; while tree[p] == tree[1]: p -= 1
RECURSIVE ScanP(_, _)
ScanP(t, pp) == IF At(t, pp) = At(t, 1) THEN ScanP(t, pp - 1) ELSE pp

\* ScanQ with the comparison > in place of >=
RECURSIVE ScanQ_strict(_, _, _)
ScanQ_strict(t, pp, qq) ==
    IF At(t, qq) > At(t, pp) THEN ScanQ_strict(t, pp, qq - 1) ELSE qq

\* q = p-1; while tree[q] >= tree[p]: q -= 1
RECURSIVE ScanQ(_, _, _)
ScanQ(t, pp, qq) == IF At(t, qq) >= At(t, pp) THEN ScanQ(t, pp, qq - 1) ELSE qq

\* CopyLoop copying a single entry instead of the whole suffix
CopyLoop_once(t, I, pp, qq) ==
    IF I >= Len(t) THEN t ELSE SetAt(t, I, At(t, I - (pp - qq)))

\* CopyLoop reading one entry to the right of the block it repeats
RECURSIVE CopyLoop_shift(_, _, _, _)
CopyLoop_shift(t, I, pp, qq) ==
    IF I >= Len(t) THEN t
    ELSE CopyLoop_shift(SetAt(t, I, At(t, I - (pp - qq) + 1)), I + 1, pp, qq)

\* for I in range(p, n): tree[I] = tree[I-(p-q)]   (in place, left to right)
RECURSIVE CopyLoop(_, _, _, _)
CopyLoop(t, I, pp, qq) ==
    IF I >= Len(t) THEN t
    ELSE CopyLoop(SetAt(t, I, At(t, I - (pp - qq))), I + 1, pp, qq)

\* ---------------------------------------------------- branches and chopping
\* subsequences.startswith(seq, cond) with cond(x) <=> x = lev: the maximal
\* contiguous runs of seq, a new run beginning at every entry equal to lev
RECURSIVE startswith(_, _)
startswith(seq, lev) ==
    IF seq = <<>> THEN <<>>
    ELSE LET rest == startswith(Tail(seq), lev)
         IN  IF rest = <<>> \/ seq[2] = lev
             THEN <<(<<Head(seq)>>)>> \o rest
             ELSE <<(<<Head(seq)>> \o Head(rest))>> \o Tail(rest)

\* branches(tree): startswith(tree[1:], lambda node: node == tree[0]+1)
branches(t) == startswith(SliceFrom(t, 1), At(t, 0) + 1)

\* subtrees(tree) / chop(tree): every branch with each level lowered by one
chop(t) ==
    LET bs == branches(t)
    IN  [i \in 1..Len(bs) |-> [j \in 1..Len(bs[i]) |-> bs[i][j] - 1]]

\* OrderedTree.chop() / DominantTree.branches(): the Multiset of the branches
\* as they stand in the level sequence, written as the list of its trees
OrderedTree_chop(t) == branches(t)

\* ------------------------------------------------------ canonical ordering
\* ordered(multiset): the list of trees in ascending order
RECURSIVE InsertAsc(_, _)
InsertAsc(x, l) ==
    IF l = <<>> THEN <<x>>
    ELSE IF ListLess(Head(l), x) THEN <<Head(l)>> \o InsertAsc(x, Tail(l))
    ELSE <<x>> \o l

RECURSIVE ordered(_)
ordered(l) == IF l = <<>> THEN <<>> ELSE InsertAsc(Head(l), ordered(Tail(l)))

\* sorted(branch_list, reverse=True): insertion of x into a descending list
RECURSIVE InsertDesc(_, _)
InsertDesc(x, l) ==
    IF l = <<>> THEN <<x>>
    ELSE IF ListLess(x, Head(l)) THEN <<Head(l)>> \o InsertDesc(x, Tail(l))
    ELSE <<x>> \o l

\* SortedReverse without reverse=True: ascending order
SortedReverse_ascending(l) == ordered(l)

RECURSIVE SortedReverse(_)
SortedReverse(l) ==
    IF l = <<>> THEN <<>> ELSE InsertDesc(Head(l), SortedReverse(Tail(l)))

\* canonical_treeorder without the recursive call on the branches
canonical_treeorder_shallow(t) ==
    LET bs == branches(t)
    IN  IF bs = <<>> THEN t
        ELSE <<At(t, 0)>> \o flatten(SortedReverse(bs))

RECURSIVE canonical_treeorder(_)
canonical_treeorder(t) ==
    LET bs == branches(t)
    IN  IF bs = <<>> THEN t
        ELSE LET branch_list == [i \in 1..Len(bs) |-> canonical_treeorder(bs[i])]
             IN  <<At(t, 0)>> \o flatten(SortedReverse(branch_list))

\* ---------------------------------------------------------------- degeneracy
\* multiset.split_set(mset): the distinct elements of a list
Elems(l) == {l[i] : i \in DOMAIN l}

\* multiplicity of x in the list l
Mult(l, x) == Cardinality({i \in DOMAIN l : l[i] = x})

RECURSIVE ProdOver(_, _)
ProdOver(S, f) ==
    IF S = {} THEN 1
    ELSE LET x == CHOOSE y \in S : TRUE IN f[x] * ProdOver(S \ {x}, f)

\* multiset.mset_degeneracy(mset): the product of the factorials of the
\* multiplicities of the distinct elements of mset
mset_degeneracy(l) ==
    ProdOver(Elems(l), [x \in Elems(l) |-> factorial(Mult(l, x))])

\* tree_degeneracy without the factor for identical subtrees
RECURSIVE tree_degeneracy_nomset(_)
tree_degeneracy_nomset(t) ==
    LET c == chop(t)
    IN  IF c = <<>> THEN 1
        ELSE ProdOver(DOMAIN c, [i \in DOMAIN c |-> tree_degeneracy_nomset(c[i])])

\* tree_degeneracy without the degeneracies of the subtrees
tree_degeneracy_nosub(t) ==
    LET c == chop(t)
    IN  IF c = <<>> THEN 1 ELSE mset_degeneracy(c)

\* RootedTree.degeneracy / tree_degeneracy(tree)
RECURSIVE tree_degeneracy(_)
tree_degeneracy(t) ==
    LET c == chop(t)
    IN  IF c = <<>> THEN 1
        ELSE ProdOver(DOMAIN c, [i \in DOMAIN c |-> tree_degeneracy(c[i])])
               * mset_degeneracy(c)

\* DominantTree.degeneracy / RootedTree.degeneracy of funcstructs: the
\* degeneracy of the multiset of subtrees times degeneracy**mult for every
\* distinct subtree
RECURSIVE dominant_degeneracy(_)
dominant_degeneracy(t) ==
    LET logs == chop(t)
    IN  mset_degeneracy(logs)
          * ProdOver(Elems(logs),
                     [subtree \in Elems(logs) |->
                         Pow(dominant_degeneracy(subtree), Mult(logs, subtree))])

\* ------------------------------------------------- trees as endofunctions
\* max(tree)
RECURSIVE MaxOf(_)
MaxOf(l) ==
    IF Len(l) = 1 THEN l[1]
    ELSE LET m == MaxOf(Tail(l)) IN IF Head(l) > m THEN Head(l) ELSE m

\* the unset entries of grafting_point ([None]*height)
None == -1

\* the loop  for node, height in enumerate(tree[1:])  of tree_to_func, from
\* position node on; st holds func, height_prev and grafting_point
\* GraftLoop without  grafting_point[height-1] = node+1
RECURSIVE GraftLoop_nograft(_, _, _, _)
GraftLoop_nograft(t, permutation, node, st) ==
    IF node >= Len(t) - 1 THEN st.func
    ELSE LET height == At(t, node + 1)
             up     == height > st.height_prev
             target == IF up
                       THEN At(permutation, At(st.grafting_point, st.height_prev - 1))
                       ELSE At(permutation, At(st.grafting_point, height - 2))
         IN  GraftLoop_nograft(t, permutation, node + 1,
                 [func           |-> SetAt(st.func, node + 1, target),
                  height_prev    |-> IF up THEN st.height_prev + 1 ELSE height,
                  grafting_point |-> st.grafting_point])

RECURSIVE GraftLoop(_, _, _, _)
GraftLoop(t, permutation, node, st) ==
    IF node >= Len(t) - 1 THEN st.func
    ELSE LET height == At(t, node + 1)
             up     == height > st.height_prev
             target == IF up
                       THEN At(permutation, At(st.grafting_point, st.height_prev - 1))
                       ELSE At(permutation, At(st.grafting_point, height - 2))
         IN  GraftLoop(t, permutation, node + 1,
                 [func           |-> SetAt(st.func, node + 1, target),
                  height_prev    |-> IF up THEN st.height_prev + 1 ELSE height,
                  grafting_point |-> SetAt(st.grafting_point, height - 1, node + 1)])

\* tree_to_func(tree, permutation) of endofunction_structures.py
tree_to_func(t, permutation) ==
    LET n == Len(t)
        height == MaxOf(t)
    IN  GraftLoop(t, permutation, 0,
            [func           |-> SetAt(Range(0, n), 0, At(permutation, 0)),
             height_prev    |-> 1,
             grafting_point |-> SetAt([i \in 1..height |-> None], 0, 0)])

\* RootedTree.func_form(permutation) of rootedtrees.py
func_form(t, permutation) ==
    LET n == Len(t)
        height == MaxOf(t)
    IN  GraftLoop(t, permutation, 0,
            [func           |-> SetAt([i \in 1..n |-> 0], 0, At(permutation, 0)),
             height_prev    |-> 1,
             grafting_point |-> [i \in 1..height |-> 0]])

\* Bijection.conj: s.conj(f)[s[x]] = s[f[x]] for every x of the domain
conj(s, f) ==
    [k \in 1..Len(f) |->
        LET x == CHOOSE x \in 0..(Len(f) - 1) : At(s, x) = k - 1
        IN  At(s, At(f, x))]

\* unpack(nested): one level of nesting removed
unpack(ll) == flatten(ll)

\* _treeform_of_noncyclic_nodes: the trees laid out in consecutive blocks
RECURSIVE TreeformLoop(_, _)
TreeformLoop(trees, tree_start) ==
    IF trees = <<>> THEN <<>>
    ELSE LET l == Len(Head(trees))
         IN  tree_to_func(Head(trees), Range(tree_start, tree_start + l))
               \o TreeformLoop(Tail(trees), tree_start + l)

treeform_of_noncyclic_nodes(function_structure) ==
    TreeformLoop(unpack(function_structure), 0)

\* CycleLoop without the reduction of node_next modulo cycle_len
RECURSIVE CycleLoop_nomod(_, _, _, _, _)
CycleLoop_nomod(func, cycle, cycle_start, cycle_len, node_ind) ==
    IF cycle = <<>> THEN func
    ELSE LET node_next == node_ind + Len(Head(cycle))
         IN  CycleLoop_nomod(SetAt(func, cycle_start + node_ind,
                                   cycle_start + node_next),
                             Tail(cycle), cycle_start, cycle_len, node_next)

\* the loop  for tree in cycle  of endofunction_to_func
RECURSIVE CycleLoop(_, _, _, _, _)
CycleLoop(func, cycle, cycle_start, cycle_len, node_ind) ==
    IF cycle = <<>> THEN func
    ELSE LET node_next == node_ind + Len(Head(cycle))
         IN  CycleLoop(SetAt(func, cycle_start + node_ind,
                             cycle_start + (node_next % cycle_len)),
                       Tail(cycle), cycle_start, cycle_len, node_next)

\* the loop  for cycle in function_structure  of endofunction_to_func
RECURSIVE StructLoop(_, _, _)
StructLoop(func, cycles, cycle_start) ==
    IF cycles = <<>> THEN func
    ELSE LET cycle_len == Len(unpack(Head(cycles)))
         IN  StructLoop(CycleLoop(func, Head(cycles), cycle_start, cycle_len, 0),
                        Tail(cycles), cycle_start + cycle_len)

\* endofunction_to_func without the loop that joins the roots into cycles
endofunction_to_func_nocycles(function_structure) ==
    treeform_of_noncyclic_nodes(function_structure)

endofunction_to_func(function_structure) ==
    StructLoop(treeform_of_noncyclic_nodes(function_structure),
               function_structure, 0)

\* --------------------------------------- multisets, partitions, necklaces
\* Python comparison a < b of two tuples of trees
RECURSIVE TupleLess(_, _)
TupleLess(a, b) ==
    IF a = <<>> THEN b # <<>>
    ELSE IF b = <<>> THEN FALSE
    ELSE IF Head(a) # Head(b) THEN ListLess(Head(a), Head(b))
    ELSE TupleLess(Tail(a), Tail(b))

\* list(S) for a set S whose iteration order no caller depends on
RECURSIVE SetToSeq(_)
SetToSeq(S) ==
    IF S = {} THEN <<>>
    ELSE LET x == CHOOSE y \in S : TRUE IN <<x>> \o SetToSeq(S \ {x})

\* the block labellings of k positions: a[1] = 1 and a[i] <= 1 + max(a[1..i-1])
RECURSIVE BlockLabellings(_)
BlockLabellings(k) ==
    IF k = 0 THEN {<<>>}
    ELSE IF k = 1 THEN {<<1>>}
    ELSE UNION {{Append(a, b) : b \in 1..(MaxOf(a) + 1)} : a \in BlockLabellings(k - 1)}

\* the entries of l at the positions that a labels b, in order
RECURSIVE Block(_, _, _)
Block(l, a, b) ==
    IF l = <<>> THEN <<>>
    ELSE IF Head(a) = b THEN <<Head(l)>> \o Block(Tail(l), Tail(a), b)
    ELSE Block(Tail(l), Tail(a), b)

\* the partition of the list l that labelling a describes, as a multiset of
\* parts: a function from each distinct part to its multiplicity
PartitionOf(l, a) ==
    LET parts == [b \in 1..MaxOf(a) |-> Block(l, a, b)]
    IN  [part \in Elems(parts) |-> Mult(parts, part)]

\* sympy multiset_partitions(multiset): every partition of the multiset into
\* non-empty parts, each once
multiset_partitions(forest) ==
    LET multiset == ordered(forest)
    IN  IF multiset = <<>> THEN <<>>
        ELSE SetToSeq({PartitionOf(multiset, a) :
                          a \in BlockLabellings(Len(multiset))})

\* the arrangements of the list l in every order
RECURSIVE Arrangements(_)
Arrangements(l) ==
    IF l = <<>> THEN {<<>>}
    ELSE UNION {{<<l[i]>> \o r :
                    r \in Arrangements([j \in 1..(Len(l) - 1) |->
                                           IF j < i THEN l[j] ELSE l[j + 1]])} :
                i \in DOMAIN l}

\* the cycle c rotated by r places
Rotate(c, r) == [i \in 1..Len(c) |-> c[((i - 1 + r) % Len(c)) + 1]]

Rotations(c) == {Rotate(c, r) : r \in 0..(Len(c) - 1)}

\* the representative of a necklace: its least rotation
LeastRotation(c) ==
    CHOOSE r \in Rotations(c) : \A o \in Rotations(c) : ~TupleLess(o, r)

\* necklaces.necklaces(items): one representative of every rotation class of
\* the arrangements of the beads in items
necklaces(items) == SetToSeq({LeastRotation(c) : c \in Arrangements(items)})

\* necklaces.cycle_degeneracy(cycle): the number of rotations that leave the
\* cycle unchanged (its length divided by the size of its rotation orbit)
cycle_degeneracy(cycle) ==
    Cardinality({r \in 0..(Len(cycle) - 1) : Rotate(cycle, r) = cycle})

\* itertools.combinations_with_replacement(items, m), as a list of tuples
RECURSIVE combinations_with_replacement(_, _)
combinations_with_replacement(items, m) ==
    IF m = 0 THEN <<(<<>>)>>
    ELSE IF items = <<>> THEN <<>>
    ELSE LET with == combinations_with_replacement(items, m - 1)
         IN  [i \in 1..Len(with) |-> <<Head(items)>> \o with[i]]
               \o combinations_with_replacement(Tail(items), m)

\* itertools.product(*lists), as a list of tuples
RECURSIVE product(_)
product(lists) ==
    IF lists = <<>> THEN <<(<<>>)>>
    ELSE LET rest == product(Tail(lists))
             hd   == Head(lists)
         IN  flatten([i \in 1..Len(hd) |->
                         [j \in 1..Len(rest) |-> <<hd[i]>> \o rest[j]]])

\* mset_functions with every arrangement of a part in place of its necklaces
mset_functions_arrangements(mset) ==
    LET elems == SetToSeq(DOMAIN mset)
        necklace_lists ==
            [ind \in 1..Len(elems) |->
                combinations_with_replacement(SetToSeq(Arrangements(elems[ind])),
                                              mset[elems[ind]])]
        bundles == product(necklace_lists)
    IN  [b \in 1..Len(bundles) |-> flatten(bundles[b])]

\* mset_functions(mset): every way of arranging each part of the partition
\* mset on a cycle, as a list of function structures; split_set(mset) is
\* the distinct parts DOMAIN mset with their multiplicities mset[el]
mset_functions(mset) ==
    LET elems == SetToSeq(DOMAIN mset)
        necklace_lists ==
            [ind \in 1..Len(elems) |->
                combinations_with_replacement(necklaces(elems[ind]),
                                              mset[elems[ind]])]
        bundles == product(necklace_lists)
    IN  [b \in 1..Len(bundles) |-> flatten(bundles[b])]

\* structure_multiplicity without the loop over the cycles
structure_multiplicity_nocycle(function_structure) ==
    IF function_structure = <<>> THEN 1
    ELSE LET forest == unpack(function_structure)
             n      == Len(unpack(forest))
             degeneracy ==
                 mset_degeneracy(function_structure)
                   * ProdOver(DOMAIN forest,
                              [i \in DOMAIN forest |-> tree_degeneracy(forest[i])])
         IN  factorial(n) \div degeneracy

\* structure_multiplicity with degeneracy starting at 1
structure_multiplicity_nomset(function_structure) ==
    IF function_structure = <<>> THEN 1
    ELSE LET forest == unpack(function_structure)
             n      == Len(unpack(forest))
             degeneracy ==
                 ProdOver(DOMAIN function_structure,
                          [c \in DOMAIN function_structure |->
                              cycle_degeneracy(function_structure[c])])
                   * ProdOver(DOMAIN forest,
                              [i \in DOMAIN forest |-> tree_degeneracy(forest[i])])
         IN  factorial(n) \div degeneracy

\* structure_multiplicity(function_structure)
structure_multiplicity(function_structure) ==
    IF function_structure = <<>> THEN 1
    ELSE LET forest == unpack(function_structure)
             n      == Len(unpack(forest))
             degeneracy ==
                 mset_degeneracy(function_structure)
                   * ProdOver(DOMAIN function_structure,
                              [c \in DOMAIN function_structure |->
                                  cycle_degeneracy(function_structure[c])])
                   * ProdOver(DOMAIN forest,
                              [i \in DOMAIN forest |-> tree_degeneracy(forest[i])])
         IN  factorial(n) \div degeneracy

\* --------------------------------------------- images, cycles and tree nodes
\* preimage(f): preim[y] = [x for x in S if y == f[x]]
preimage(f) ==
    [y \in 1..Len(f) |->
        SelectSeq(Range(0, Len(f)), LAMBDA x : At(f, x) = y - 1)]

\* ImageLoop without  cardinalities.extend([card]*(n-2-it))
RECURSIVE ImageLoop_nopad(_, _, _, _, _)
ImageLoop_nopad(f_orig, f, it, card_prev, cardinalities) ==
    IF it >= Len(f_orig) - 1 THEN cardinalities
    ELSE LET f_next == [k \in 1..Len(f) |-> At(f_orig, f[k])]
             card == Cardinality(Elems(f_next))
         IN  IF card = card_prev
             THEN Append(cardinalities, card)
             ELSE ImageLoop_nopad(f_orig, f_next, it + 1, card,
                                  Append(cardinalities, card))

\* the loop  for it in range(1, n-1)  of imagepath, from pass it on:
\* f = [f_orig[x] for x in f], its cardinality appended, and the early exit
RECURSIVE ImageLoop(_, _, _, _, _)
ImageLoop(f_orig, f, it, card_prev, cardinalities) ==
    IF it >= Len(f_orig) - 1 THEN cardinalities
    ELSE LET f_next == [k \in 1..Len(f) |-> At(f_orig, f[k])]
             card == Cardinality(Elems(f_next))
         IN  IF card = card_prev
             THEN Append(cardinalities, card)
                    \o [k \in 1..(Len(f_orig) - 2 - it) |-> card]
             ELSE ImageLoop(f_orig, f_next, it + 1, card,
                            Append(cardinalities, card))

\* imagepath(f) / Endofunction.imagepath
imagepath(f) == ImageLoop(f, f, 1, Len(f), <<Cardinality(Elems(f))>>)

\* the loop  for it in component_iterates  of Endofunction.__pow__, the
\* binary digits of n taken from the lowest: f_iter = f_iter(f) on a digit 1,
\* then f = f(f)
RECURSIVE PowLoop(_, _, _)
PowLoop(f, f_iter, n) ==
    IF n = 0 THEN f_iter
    ELSE PowLoop([k \in 1..Len(f) |-> At(f, f[k])],
                 IF n % 2 = 1 THEN [k \in 1..Len(f) |-> At(f_iter, f[k])]
                 ELSE f_iter,
                 n \div 2)

\* Endofunction.__pow__(self, n): the nth iterate of f
func_pow(f, n) == PowLoop(f, Range(0, Len(f)), n)

\* Path with one step less
RECURSIVE Path_short(_, _, _)
Path_short(f, x, k) ==
    IF k <= 1 THEN <<x>> ELSE <<x>> \o Path_short(f, At(f, x), k - 1)

\* path = [x]; for it in range(k): x = f[x]; path.append(x)
RECURSIVE Path(_, _, _)
Path(f, x, k) == IF k = 0 THEN <<x>> ELSE <<x>> \o Path(f, At(f, x), k - 1)

\* ScanI with a single pass of the while loop
ScanI_once(path, I) ==
    IF I >= 0 /\ At(path, I) # At(path, -1) THEN I - 1 ELSE I

\* while I >= 0 and path[I] != path[-1]: I -= 1
RECURSIVE ScanI(_, _)
ScanI(path, I) ==
    IF I >= 0 /\ At(path, I) # At(path, -1) THEN ScanI(path, I - 1) ELSE I

\* FuncCyclesLoop without  cycle_els.extend(path[I+1:])
RECURSIVE FuncCyclesLoop_noextend(_, _, _)
FuncCyclesLoop_noextend(f, x, cycle_els) ==
    IF x >= Len(f) THEN <<>>
    ELSE LET path == Path(f, x, Len(f))
             I == ScanI(path, Len(f) - 1)
         IN  IF At(path, -1) \notin Elems(cycle_els)
             THEN <<SliceFrom(path, I + 1)>>
                    \o FuncCyclesLoop_noextend(f, x + 1, cycle_els)
             ELSE FuncCyclesLoop_noextend(f, x + 1, cycle_els)

\* the loop  for x in range(N)  of funccycles, from x on: the cycles yielded
RECURSIVE FuncCyclesLoop(_, _, _)
FuncCyclesLoop(f, x, cycle_els) ==
    IF x >= Len(f) THEN <<>>
    ELSE LET path == Path(f, x, Len(f))
             I == ScanI(path, Len(f) - 1)
             cycle == SliceFrom(path, I + 1)
         IN  IF At(path, -1) \notin Elems(cycle_els)
             THEN <<cycle>> \o FuncCyclesLoop(f, x + 1, cycle_els \o cycle)
             ELSE FuncCyclesLoop(f, x + 1, cycle_els)

\* list(funccycles(f))
funccycles(f) == IF Len(f) = 1 THEN <<(<<0>>)>> ELSE FuncCyclesLoop(f, 0, <<>>)

\* limitset(f) = flatten(funccycles(f))
limitset(f) == flatten(funccycles(f))

\* attached_treenodes without the removal of the limit set
attached_treenodes_all(f) == preimage(f)

\* attached_treenodes(f): every preimage list with the elements of the
\* limit set removed
attached_treenodes(f) ==
    LET descendents == preimage(f)
        limset == limitset(f)
    IN  [y \in 1..Len(f) |->
            SelectSeq(descendents[y], LAMBDA x : x \notin Elems(limset))]

\* _attached_subtree(node, level, treenodes): the level of the node, then
\* the level paths of the nodes attached to it
RECURSIVE attached_subtree_rec(_, _, _)
attached_subtree_rec(node, level, treenodes) ==
    LET attached == treenodes[node + 1]
    IN  <<level>> \o flatten([k \in 1..Len(attached) |->
                    attached_subtree_rec(attached[k], level + 1, treenodes)])

\* attached_subtree without the call of canonical_treeorder
attached_subtree_unordered(f, node) ==
    attached_subtree_rec(node, 1, attached_treenodes(f))

\* attached_subtree(f, node)
attached_subtree(f, node) ==
    LET treenodes == attached_treenodes(f)
    IN  IF treenodes[node + 1] = <<>> THEN <<1>>
        ELSE canonical_treeorder(attached_subtree_rec(node, 1, treenodes))

\* treefunc_to_tree(treefunc): the tree attached to the first fixed point
treefunc_to_tree(f) ==
    LET n == Len(f)
        root == Head(SelectSeq(Range(0, n), LAMBDA x : At(f, x) = x))
    IN  attached_subtree(f, root)

\* --------------------------------------------------- RootedTrees.__iter__
\* the successor step of the while loop: lines 183-190
SuccP(t) == ScanP(t, Len(t) - 1)
SuccQ(t) == ScanQ(t, SuccP(t), SuccP(t) - 1)
Successor(t) == CopyLoop(t, SuccP(t), SuccP(t), SuccQ(t))

\* the loop is entered again: n > 2 and tree[1] != tree[2]
HasNext(t) == Len(t) > 2 /\ At(t, 1) # At(t, 2)

\* list(rooted_trees(n)) continued from the tree t: every tree from t on
RECURSIVE TreesFrom(_)
TreesFrom(t) ==
    IF HasNext(t) THEN <<t>> \o TreesFrom(Successor(t)) ELSE <<t>>

\* tree_tuples(n): the trees of rooted_trees(n), in the order yielded
tree_tuples(n) == TreesFrom(FirstTree(n, 1))

\* testDegeneracy's loop body, run on the tree just yielded
Consume(cnt, t) == cnt + factorial(Len(t)) \div tree_degeneracy(t)

TreeIdle ==
    /\ node_count = 0
    /\ root_height = 0
    /\ tree = <<>>
    /\ pc = "idle"
    /\ p = 0
    /\ q = 0
    /\ yielded = <<>>
    /\ labelled_treecount = 0
    /\ enumerator = "none"
    /\ collected = <<>>

CanonIdle ==
    /\ ordered_tree = <<>>
    /\ dominant_tree = <<>>
    /\ treefunc = <<>>
    /\ formfunc = <<>>
    /\ cpc = "idle"

LabelIdle ==
    /\ ltree = <<>>
    /\ lperm = <<>>
    /\ rtreefunc = <<>>
    /\ rtree = <<>>
    /\ ldeg = 0
    /\ lpc = "idle"

StructIdle ==
    /\ sn = 0
    /\ stree = <<>>
    /\ sforest = <<>>
    /\ smsets = <<>>
    /\ spending = <<>>
    /\ sstruct = <<>>
    /\ smult = 0
    /\ structs = <<>>
    /\ struct_count = 0
    /\ func_count = 0
    /\ M = <<>>
    /\ spc = "idle"

LenIdle ==
    /\ len_n = 0
    /\ T = <<>>
    /\ ln = 0
    /\ li = 0
    /\ ls = 0
    /\ lrem = 0
    /\ lcount = 0
    /\ lenpc = "idle"

ForestIdle ==
    /\ fn = 0
    /\ ftree = <<>>
    /\ fpending = <<>>
    /\ fsimple = <<>>
    /\ fcomplex = <<>>
    /\ fpc = "idle"
    /\ etree = <<>>
    /\ fenum = <<>>

FuncIdle ==
    /\ ef = <<>>
    /\ fcycles = <<>>
    /\ fpath = <<>>
    /\ fnodes = <<>>
    /\ tried = {}
    /\ cyclic = {}
    /\ remaining = {}
    /\ ecycles = <<>>
    /\ ancestors = <<>>
    /\ epc = "idle"
    /\ tform = <<>>
    /\ ffunc = <<>>
    /\ walk = <<>>

ConsIdle ==
    /\ cclass = "none"
    /\ carg = <<>>
    /\ cresult = "none"
    /\ cyield = <<>>
    /\ conspc = "idle"

TreeInit ==
    /\ node_count \in 1..MaxNodes
    /\ root_height \in RootHeights
    /\ tree = <<>>
    /\ pc = "start"
    /\ p = 0
    /\ q = 0
    /\ yielded = <<>>
    /\ labelled_treecount = 0
    /\ enumerator \in {"RootedTrees", "TreeEnumerator"}
    /\ enumerator = "RootedTrees" => root_height = 1
    /\ collected = <<>>

\* tree = [I+1 for I in range(self.n)]; yield tree
IterFirst ==
    /\ pc = "start"
    /\ tree' = FirstTree(node_count, root_height)
    /\ yielded' = Append(yielded, tree')
    /\ labelled_treecount' = Consume(labelled_treecount, tree')
    /\ collected' = <<tree'>>
    /\ pc' = "loop"
    /\ UNCHANGED <<node_count, root_height, p, q, enumerator>>
    /\ UNCHANGED <<canonVars, labelVars, structVars, lenVars, forestVars, funcVars, consVars>>

\* one pass of the while loop, up to and including its yield
IterNext ==
    /\ pc = "loop"
    /\ HasNext(tree)
    /\ p' = SuccP(tree)
    /\ q' = SuccQ(tree)
    /\ tree' = Successor(tree)
    /\ yielded' = Append(yielded, tree')
    /\ labelled_treecount' = Consume(labelled_treecount, tree')
    /\ collected' = IF enumerator = "RootedTrees"
                    THEN [i \in 1..(Len(collected) + 1) |-> tree']
                    ELSE Append(collected, tree')
    /\ UNCHANGED <<node_count, root_height, pc, enumerator>>
    /\ UNCHANGED <<canonVars, labelVars, structVars, lenVars, forestVars, funcVars, consVars>>

\* the generator returns: n <= 2, or tree[1] == tree[2]
IterStop ==
    /\ pc = "loop"
    /\ ~HasNext(tree)
    /\ pc' = "done"
    /\ UNCHANGED <<node_count, root_height, tree, p, q, yielded,
                   labelled_treecount, enumerator, collected>>
    /\ UNCHANGED <<canonVars, labelVars, structVars, lenVars, forestVars, funcVars, consVars>>

Init == TreeInit /\ CanonIdle /\ LabelIdle /\ StructIdle /\ LenIdle /\ ForestIdle /\ FuncIdle /\ ConsIdle

Next == IterFirst \/ IterNext \/ IterStop

Spec == Init /\ [][Next]_vars

\* the control flow of __iter__ alone: the generator is resumed from its
\* first yield, from the yield inside the while loop, or runs off its end
Resume ==
    \/ pc = "start" /\ pc' = "loop"
                    /\ tree' = FirstTree(node_count, root_height)
    \/ pc = "loop" /\ HasNext(tree) /\ pc' = pc /\ tree' = Successor(tree)
    \/ pc = "loop" /\ ~HasNext(tree) /\ pc' = "done" /\ tree' = tree

\* the consumer of the generator (a for loop, list()) resumes it as long as
\* it has not returned
SpecLive == Spec /\ WF_<<pc, tree>>(Resume)

\* ---------------------------------------------------- canonical_treeorder
\* the level sequences of k nodes with root level h: every later entry is
\* greater than h and at most one more than its predecessor
RECURSIVE LevelSequences(_, _)
LevelSequences(h, k) ==
    IF k = 1 THEN {<<h>>}
    ELSE UNION {{Append(s, l) : l \in (h + 1)..(s[Len(s)] + 1)} :
                s \in LevelSequences(h, k - 1)}

CanonInit ==
    /\ ordered_tree \in UNION {LevelSequences(h, k) :
                                h \in RootHeights, k \in 1..MaxLen}
    /\ dominant_tree = <<>>
    /\ treefunc = <<>>
    /\ formfunc = <<>>
    /\ cpc = "call"

\* dominant_tree = canonical_treeorder(ordered_tree)
Canonicalize ==
    /\ cpc = "call"
    /\ dominant_tree' = canonical_treeorder(ordered_tree)
    /\ cpc' = "done"
    /\ UNCHANGED <<ordered_tree, treefunc, formfunc>>
    /\ UNCHANGED <<treeVars, labelVars, structVars, lenVars, forestVars, funcVars, consVars>>

\* treefunc = tree_to_func(tree), formfunc = RootedTree(tree).func_form(),
\* for a level sequence whose root level is 1
ToFunc ==
    /\ cpc = "call"
    /\ At(ordered_tree, 0) = 1
    /\ treefunc' = tree_to_func(ordered_tree, Range(0, Len(ordered_tree)))
    /\ formfunc' = func_form(ordered_tree, Range(0, Len(ordered_tree)))
    /\ cpc' = "func"
    /\ UNCHANGED <<ordered_tree, dominant_tree>>
    /\ UNCHANGED <<treeVars, labelVars, structVars, lenVars, forestVars, funcVars, consVars>>

InitCanon == TreeIdle /\ CanonInit /\ LabelIdle /\ StructIdle /\ LenIdle /\ ForestIdle /\ FuncIdle /\ ConsIdle

NextCanon == Canonicalize \/ ToFunc

SpecCanon == InitCanon /\ [][NextCanon]_vars

\* ------------------------------------------------- relabelling of a tree
\* the bijections of range(n), as lists
Bijections(n) == Arrangements(Range(0, n))

LabelInit ==
    /\ \E n \in 1..MaxLabelNodes :
          /\ ltree \in Elems(tree_tuples(n))
          /\ lperm \in Bijections(n)
    /\ rtreefunc = <<>>
    /\ rtree = <<>>
    /\ ldeg = 0
    /\ lpc = "call"

\* ldeg = tree_degeneracy(ltree); rtreefunc = lperm.conj(func_form of ltree);
\* rtree = treefunc_to_tree(rtreefunc)
Relabel ==
    /\ lpc = "call"
    /\ ldeg' = tree_degeneracy(ltree)
    /\ rtreefunc' = conj(lperm, func_form(ltree, Range(0, Len(ltree))))
    /\ rtree' = treefunc_to_tree(rtreefunc')
    /\ lpc' = "done"
    /\ UNCHANGED <<ltree, lperm>>
    /\ UNCHANGED <<treeVars, canonVars, structVars, lenVars, forestVars, funcVars, consVars>>

InitLabel == TreeIdle /\ CanonIdle /\ LabelInit /\ StructIdle /\ LenIdle /\ ForestIdle /\ FuncIdle /\ ConsIdle

NextLabel == Relabel

SpecLabel == InitLabel /\ [][NextLabel]_vars

\* ------------------------------------------------ endofunction_structures
\* for it, card in enumerate(im): M[card-1, it] += 1
ImagedistAdd_unit(mat, im, mult) ==
    [r \in 1..Len(mat) |->
        [c \in 1..Len(mat[r]) |->
            mat[r][c] + (IF im[c] = r THEN 1 ELSE 0)]]

\* for it, card in enumerate(im): M[card-1, it] += mult
ImagedistAdd(mat, im, mult) ==
    [r \in 1..Len(mat) |->
        [c \in 1..Len(mat[r]) |->
            mat[r][c] + (IF im[c] = r THEN mult ELSE 0)]]

\* iterate_imagedist_brute(n): every one of the n**n endofunctions adds 1
\* at row card-1, column it for every entry of its imagepath
iterate_imagedist_brute(n) ==
    LET ims == {<<f, imagepath(f)>> : f \in [1..n -> 0..(n - 1)]}
    IN  [r \in 1..n |->
            [c \in 1..(n - 1) |->
                Cardinality({pr \in ims : pr[2][c] = r})]]

\* forests_simple: the forest chopped off the tree t of rooted_trees(N+1)
StructInit ==
    /\ sn \in 0..MaxStructN
    /\ stree = <<>>
    /\ sforest = <<>>
    /\ smsets = <<>>
    /\ spending = <<>>
    /\ sstruct = <<>>
    /\ smult = 0
    /\ structs = <<>>
    /\ struct_count = 0
    /\ func_count = 0
    /\ M = IF sn = 0 THEN <<>>
           ELSE IF sn = 1 THEN <<1>>
           ELSE [r \in 1..sn |-> [c \in 1..(sn - 1) |-> 0]]
    /\ spc = "start"

\* forests_simple(0) returns at once: nothing is yielded
NoForests ==
    /\ spc = "start"
    /\ sn = 0
    /\ spc' = "done"
    /\ UNCHANGED <<sn, stree, sforest, smsets, spending, sstruct, smult,
                   structs, struct_count, func_count, M>>
    /\ UNCHANGED <<treeVars, canonVars, labelVars, lenVars, forestVars, funcVars, consVars>>

\* the first forest: chop of the first tree of rooted_trees(n+1), and the
\* list of its multiset partitions
ForestFirst ==
    /\ spc = "start"
    /\ sn # 0
    /\ stree' = FirstTree(sn + 1, 1)
    /\ sforest' = chop(stree')
    /\ smsets' = multiset_partitions(sforest')
    /\ spc' = "loop"
    /\ UNCHANGED <<sn, spending, sstruct, smult, structs, struct_count,
                   func_count, M>>
    /\ UNCHANGED <<treeVars, canonVars, labelVars, lenVars, forestVars, funcVars, consVars>>

\* the next forest, when every partition of the current one is used up
ForestNext ==
    /\ spc = "loop"
    /\ spending = <<>>
    /\ smsets = <<>>
    /\ HasNext(stree)
    /\ stree' = Successor(stree)
    /\ sforest' = chop(stree')
    /\ smsets' = multiset_partitions(sforest')
    /\ UNCHANGED <<sn, spending, sstruct, smult, structs, struct_count,
                   func_count, M, spc>>
    /\ UNCHANGED <<treeVars, canonVars, labelVars, lenVars, forestVars, funcVars, consVars>>

\* the next partition of the forest: mset_functions(mset) is started
PartitionNext ==
    /\ spc = "loop"
    /\ spending = <<>>
    /\ smsets # <<>>
    /\ spending' = mset_functions(Head(smsets))
    /\ smsets' = Tail(smsets)
    /\ UNCHANGED <<sn, stree, sforest, sstruct, smult, structs, struct_count,
                   func_count, M, spc>>
    /\ UNCHANGED <<treeVars, canonVars, labelVars, lenVars, forestVars, funcVars, consVars>>

\* yield function_structure, and the loop bodies of testStructures,
\* testMultipliciy and iterate_imagedist_endofunction run on it
StructYield ==
    /\ spc = "loop"
    /\ spending # <<>>
    /\ sstruct' = Head(spending)
    /\ spending' = Tail(spending)
    /\ smult' = structure_multiplicity(sstruct')
    /\ structs' = Append(structs, sstruct')
    /\ struct_count' = struct_count + 1
    /\ func_count' = func_count + smult'
    /\ M' = IF sn = 1 THEN M
            ELSE ImagedistAdd(M, imagepath(endofunction_to_func(sstruct')),
                              smult')
    /\ UNCHANGED <<sn, stree, sforest, smsets, spc>>
    /\ UNCHANGED <<treeVars, canonVars, labelVars, lenVars, forestVars, funcVars, consVars>>

\* rooted_trees(n+1) is exhausted: the generator returns
StructStop ==
    /\ spc = "loop"
    /\ spending = <<>>
    /\ smsets = <<>>
    /\ ~HasNext(stree)
    /\ spc' = "done"
    /\ UNCHANGED <<sn, stree, sforest, smsets, spending, sstruct, smult,
                   structs, struct_count, func_count, M>>
    /\ UNCHANGED <<treeVars, canonVars, labelVars, lenVars, forestVars, funcVars, consVars>>

InitStruct == TreeIdle /\ CanonIdle /\ LabelIdle /\ StructInit /\ LenIdle /\ ForestIdle /\ FuncIdle /\ ConsIdle

NextStruct ==
    \/ NoForests
    \/ ForestFirst
    \/ ForestNext
    \/ PartitionNext
    \/ StructYield
    \/ StructStop

SpecStruct == InitStruct /\ [][NextStruct]_vars

\* --------------------------------------------------------- _calculate_len
\* factorization.divisors(i): the positive divisors of i
divisors(i) == {d \in 1..i : i % d = 0}

\* DivisorSum with s += T[d] in place of s += T[d]*d
DivisorSum_unweighted(tt, i) ==
    LET f[D \in SUBSET divisors(i)] ==
            IF D = {} THEN 0
            ELSE LET d == CHOOSE x \in D : TRUE IN At(tt, d) + f[D \ {d}]
    IN  f[divisors(i)]

\* s = 0; for d in factorization.divisors(i): s += T[d]*d
DivisorSum(tt, i) ==
    LET f[D \in SUBSET divisors(i)] ==
            IF D = {} THEN 0
            ELSE LET d == CHOOSE x \in D : TRUE IN At(tt, d) * d + f[D \ {d}]
    IN  f[divisors(i)]

LenInit ==
    /\ len_n \in 1..MaxNodes
    /\ T = <<>>
    /\ ln = 0
    /\ li = 0
    /\ ls = 0
    /\ lrem = 0
    /\ lcount = 0
    /\ lenpc = "start"

\* T = [0, 1] + [0]*(self.n - 1), and the loops are entered: both ranges,
\* range(2, self.n + 1) and range(1, self.n), are empty exactly when n = 1
LenStart ==
    /\ lenpc = "start"
    /\ T' = <<0, 1>> \o [k \in 1..(len_n - 1) |-> 0]
    /\ ln' = 2
    /\ li' = 1
    /\ lenpc' = IF len_n >= 2 THEN "inner" ELSE "return"
    /\ UNCHANGED <<len_n, ls, lrem, lcount>>
    /\ UNCHANGED <<treeVars, canonVars, labelVars, structVars, forestVars, funcVars, consVars>>

\* one pass of  for i in range(1, self.n):  s is the divisor sum times
\* T[n-i], a negative index n-i counting from the end of T; T[n] += s
LenInner ==
    /\ lenpc = "inner"
    /\ li < len_n
    /\ ls' = DivisorSum(T, li) * At(T, ln - li)
    /\ T' = SetAt(T, ln, At(T, ln) + ls')
    /\ li' = li + 1
    /\ UNCHANGED <<len_n, ln, lrem, lcount, lenpc>>
    /\ UNCHANGED <<treeVars, canonVars, labelVars, structVars, forestVars, funcVars, consVars>>

\* the inner loop is exhausted: T[n] //= n-1, and the next n
LenDivide ==
    /\ lenpc = "inner"
    /\ li >= len_n
    /\ lrem' = At(T, ln) % (ln - 1)
    /\ T' = SetAt(T, ln, At(T, ln) \div (ln - 1))
    /\ ln' = ln + 1
    /\ li' = 1
    /\ lenpc' = IF ln + 1 < len_n + 1 THEN "inner" ELSE "return"
    /\ UNCHANGED <<len_n, ls, lcount>>
    /\ UNCHANGED <<treeVars, canonVars, labelVars, structVars, forestVars, funcVars, consVars>>

\* return T[-1]
LenReturn ==
    /\ lenpc = "return"
    /\ lcount' = At(T, -1)
    /\ lenpc' = "done"
    /\ UNCHANGED <<len_n, T, ln, li, ls, lrem>>
    /\ UNCHANGED <<treeVars, canonVars, labelVars, structVars, forestVars, funcVars, consVars>>

InitLen == TreeIdle /\ CanonIdle /\ LabelIdle /\ StructIdle /\ LenInit /\ ForestIdle /\ FuncIdle /\ ConsIdle

NextLen == LenStart \/ LenInner \/ LenDivide \/ LenReturn

SpecLen == InitLen /\ [][NextLen]_vars

\* ------------------------------------------------------------------ forests
\* PADS.IntegerPartitions.partitions(n): every list of positive integers in
\* non-increasing order with sum n, each once
RECURSIVE PartitionsUpTo(_, _)
PartitionsUpTo(n, largest) ==
    IF n = 0 THEN {<<>>}
    ELSE UNION {{<<k>> \o r : r \in PartitionsUpTo(n - k, k)} :
                k \in 1..(IF largest < n THEN largest ELSE n)}

partitions(n) == SetToSeq(PartitionsUpTo(n, n))

\* partition_forests with one tree of every size, whatever its multiplicity
partition_forests_once(partition) ==
    LET y == SetToSeq(Elems(partition))
        seeds == [I \in 1..Len(y) |->
                     combinations_with_replacement(tree_tuples(y[I]), 1)]
        bundles == product(seeds)
    IN  [b \in 1..Len(bundles) |-> flatten(bundles[b])]

\* partition_forests(partition): y, d = split_set(partition); for every size
\* y[I] a combination with replacement of d[I] trees of that size
partition_forests(partition) ==
    LET y == SetToSeq(Elems(partition))
        seeds == [I \in 1..Len(y) |->
                     combinations_with_replacement(tree_tuples(y[I]),
                                                   Mult(partition, y[I]))]
        bundles == product(seeds)
    IN  [b \in 1..Len(bundles) |-> flatten(bundles[b])]

\* list(forests_complex(n))
forests_complex(n) ==
    IF n = 0 THEN <<>>
    ELSE LET ps == partitions(n)
         IN  flatten([k \in 1..Len(ps) |-> partition_forests(ps[k])])

ForestInit ==
    /\ fn \in 0..MaxForestN
    /\ ftree = <<>>
    /\ fpending = <<>>
    /\ fsimple = <<>>
    /\ fcomplex = <<>>
    /\ fpc = "start"
    /\ etree = <<>>
    /\ fenum = <<>>

\* N == 0 (n == 0): both generators return at once
ForestsEmpty ==
    /\ fpc = "start"
    /\ fn = 0
    /\ fpc' = "done"
    /\ UNCHANGED <<fn, ftree, fpending, fsimple, fcomplex, etree, fenum>>
    /\ UNCHANGED <<treeVars, canonVars, labelVars, structVars, lenVars, funcVars, consVars>>

\* forests_simple: the first tree of rooted_trees(N+1) is chopped
SimpleFirst ==
    /\ fpc = "start"
    /\ fn # 0
    /\ ftree' = FirstTree(fn + 1, 1)
    /\ fsimple' = Append(fsimple, chop(ftree'))
    /\ fpc' = "simple"
    /\ UNCHANGED <<fn, fpending, fcomplex, etree, fenum>>
    /\ UNCHANGED <<treeVars, canonVars, labelVars, structVars, lenVars, funcVars, consVars>>

\* forests_simple: the next tree of rooted_trees(N+1) is chopped
SimpleNext ==
    /\ fpc = "simple"
    /\ HasNext(ftree)
    /\ ftree' = Successor(ftree)
    /\ fsimple' = Append(fsimple, chop(ftree'))
    /\ UNCHANGED <<fn, fpending, fcomplex, fpc, etree, fenum>>
    /\ UNCHANGED <<treeVars, canonVars, labelVars, structVars, lenVars, funcVars, consVars>>

\* forests_simple has returned; forests_complex(n) is started
ComplexStart ==
    /\ fpc = "simple"
    /\ ~HasNext(ftree)
    /\ fpending' = forests_complex(fn)
    /\ fpc' = "complex"
    /\ UNCHANGED <<fn, ftree, fsimple, fcomplex, etree, fenum>>
    /\ UNCHANGED <<treeVars, canonVars, labelVars, structVars, lenVars, funcVars, consVars>>

\* forests_complex: yield forest
ComplexNext ==
    /\ fpc = "complex"
    /\ fpending # <<>>
    /\ fcomplex' = Append(fcomplex, Head(fpending))
    /\ fpending' = Tail(fpending)
    /\ UNCHANGED <<fn, ftree, fsimple, fpc, etree, fenum>>
    /\ UNCHANGED <<treeVars, canonVars, labelVars, structVars, lenVars, funcVars, consVars>>

\* forests_complex has returned
ComplexStop ==
    /\ fpc = "complex"
    /\ fpending = <<>>
    /\ fpc' = "done"
    /\ UNCHANGED <<fn, ftree, fpending, fsimple, fcomplex, etree, fenum>>
    /\ UNCHANGED <<treeVars, canonVars, labelVars, structVars, lenVars, funcVars, consVars>>

\* ForestEnumerator.__iter__: the first tree of TreeEnumerator(self.n+1),
\* whose root level is the default 0, is chopped
EnumeratorFirst ==
    /\ fpc = "done"
    /\ etree' = FirstTree(fn + 1, 0)
    /\ fenum' = Append(fenum, OrderedTree_chop(etree'))
    /\ fpc' = "enumerate"
    /\ UNCHANGED <<fn, ftree, fpending, fsimple, fcomplex>>
    /\ UNCHANGED <<treeVars, canonVars, labelVars, structVars, lenVars, funcVars, consVars>>

\* ForestEnumerator.__iter__: the next tree of TreeEnumerator(self.n+1) is
\* chopped
EnumeratorNext ==
    /\ fpc = "enumerate"
    /\ HasNext(etree)
    /\ etree' = Successor(etree)
    /\ fenum' = Append(fenum, OrderedTree_chop(etree'))
    /\ UNCHANGED <<fn, ftree, fpending, fsimple, fcomplex, fpc>>
    /\ UNCHANGED <<treeVars, canonVars, labelVars, structVars, lenVars, funcVars, consVars>>

\* ForestEnumerator.__iter__ has returned
EnumeratorStop ==
    /\ fpc = "enumerate"
    /\ ~HasNext(etree)
    /\ fpc' = "enumerated"
    /\ UNCHANGED <<fn, ftree, fpending, fsimple, fcomplex, etree, fenum>>
    /\ UNCHANGED <<treeVars, canonVars, labelVars, structVars, lenVars, funcVars, consVars>>

InitForest == TreeIdle /\ CanonIdle /\ LabelIdle /\ StructIdle /\ LenIdle /\ ForestInit /\ FuncIdle /\ ConsIdle

NextForest ==
    \/ ForestsEmpty
    \/ SimpleFirst
    \/ SimpleNext
    \/ ComplexStart
    \/ ComplexNext
    \/ ComplexStop
    \/ EnumeratorFirst
    \/ EnumeratorNext
    \/ EnumeratorStop

SpecForest == InitForest /\ [][NextForest]_vars

\* ------------------------------------------- cycles and images of a function
\* WalkLoop marking the node walked to as tried instead of the node walked from
WalkLoop_late(f, x, path, tried_els) ==
    IF x \in tried_els THEN <<x, path, tried_els>>
    ELSE <<At(f, x), Append(path, At(f, x)), tried_els \cup {At(f, x)}>>

\* the inner loop of enumerate_cycles:  while x not in tried: ...; the last
\* x, the path and the set tried when it ends
RECURSIVE WalkLoop(_, _, _, _)
WalkLoop(f, x, path, tried_els) ==
    IF x \in tried_els THEN <<x, path, tried_els>>
    ELSE WalkLoop(f, At(f, x), Append(path, At(f, x)), tried_els \cup {x})

\* the functions of CycleTests.funcs: every endofunction on range(n)
FuncInit ==
    /\ ef \in UNION {[1..n -> 0..(n - 1)] : n \in 0..MaxFuncN}
    /\ fcycles = <<>>
    /\ fpath = <<>>
    /\ fnodes = <<>>
    /\ tried = {}
    /\ cyclic = {}
    /\ remaining = {}
    /\ ecycles = <<>>
    /\ ancestors = <<>>
    /\ epc = "call"
    /\ tform = <<>>
    /\ ffunc = <<>>
    /\ walk = <<>>

\* fcycles = list(funccycles(ef))
FuncCycles ==
    /\ epc = "call"
    /\ fcycles' = funccycles(ef)
    /\ epc' = "cycles"
    /\ UNCHANGED <<ef, fpath, fnodes, tried, cyclic, remaining, ecycles,
                   ancestors, tform, ffunc, walk>>
    /\ UNCHANGED <<treeVars, canonVars, labelVars, structVars, lenVars, forestVars, consVars>>

\* fpath = imagepath(ef)
Imagepath ==
    /\ epc = "cycles"
    /\ fpath' = imagepath(ef)
    /\ epc' = "path"
    /\ UNCHANGED <<ef, fcycles, fnodes, tried, cyclic, remaining, ecycles,
                   ancestors, tform, ffunc, walk>>
    /\ UNCHANGED <<treeVars, canonVars, labelVars, structVars, lenVars, forestVars, consVars>>

\* fnodes = attached_treenodes(ef)
AttachedTreenodes ==
    /\ epc = "path"
    /\ fnodes' = attached_treenodes(ef)
    /\ epc' = "nodes"
    /\ UNCHANGED <<ef, fcycles, fpath, tried, cyclic, remaining, ecycles,
                   ancestors, tform, ffunc, walk>>
    /\ UNCHANGED <<treeVars, canonVars, labelVars, structVars, lenVars, forestVars, consVars>>

\* enumerate_cycles is started: tried = set(), cyclic = set(),
\* remaining = set(self.domain)
EnumStart ==
    /\ epc = "nodes"
    /\ tried' = {}
    /\ cyclic' = {}
    /\ remaining' = 0..(Len(ef) - 1)
    /\ ecycles' = <<>>
    /\ epc' = "enum"
    /\ UNCHANGED <<ef, fcycles, fpath, fnodes, ancestors, tform, ffunc>>
    /\ walk' = <<>>
    /\ UNCHANGED <<treeVars, canonVars, labelVars, structVars, lenVars, forestVars, consVars>>

\* one pass of  while remaining:  x = remaining.pop() takes any element of
\* the set; the walk from it; the cycle path[path.index(x)+1:] is yielded
\* when x is not in cyclic and the cycle is not empty
EnumWalk ==
    /\ epc = "enum"
    /\ remaining # {}
    /\ \E x0 \in remaining :
          LET w     == WalkLoop(ef, x0, <<x0>>, tried)
              x     == w[1]
              path  == w[2]
              index == CHOOSE i \in 1..Len(path) :
                          /\ path[i] = x
                          /\ \A j \in 1..(i - 1) : path[j] # x
              cycle == SubSeq(path, index + 1, Len(path))
          IN  /\ tried' = w[3]
              /\ walk' = path
              /\ remaining' = (remaining \ {x0}) \ w[3]
              /\ IF x \notin cyclic /\ cycle # <<>>
                 THEN /\ ecycles' = Append(ecycles, cycle)
                      /\ cyclic' = cyclic \cup Elems(cycle)
                 ELSE UNCHANGED <<ecycles, cyclic>>
    /\ UNCHANGED <<ef, fcycles, fpath, fnodes, ancestors, epc, tform, ffunc>>
    /\ UNCHANGED <<treeVars, canonVars, labelVars, structVars, lenVars, forestVars, consVars>>

\* enumerate_cycles returns and its path is gone; acyclic_ancestors (Endofunction.attached_treenodes):
\* for every y the elements of preimage[y] that are not in the limitset
EnumStop ==
    /\ epc = "enum"
    /\ remaining = {}
    /\ LET limset == Elems(flatten(ecycles))
       IN  ancestors' = [y \in 1..Len(ef) |->
                            {x \in 0..(Len(ef) - 1) :
                                At(ef, x) = y - 1 /\ x \notin limset}]
    /\ epc' = "done"
    /\ walk' = <<>>
    /\ UNCHANGED <<ef, fcycles, fpath, fnodes, tried, cyclic, remaining,
                   ecycles, tform, ffunc>>
    /\ UNCHANGED <<treeVars, canonVars, labelVars, structVars, lenVars, forestVars, consVars>>

\* Endofunction.tree_form() of endofunctions.py: ValueError unless the cycles
\* are one cycle of one element; else the DominantTree of the level sequence,
\* root level 1, read off attached_treenodes from the root (the sets are
\* walked in any order: the dominant form does not depend on it)
TreeForm ==
    /\ epc = "done"
    /\ tform' =
          IF Len(ecycles) # 1 \/ Len(ecycles[1]) # 1 THEN "ValueError"
          ELSE canonical_treeorder(
                   attached_subtree_rec(ecycles[1][1], 1,
                       [y \in 1..Len(ef) |-> SetToSeq(ancestors[y])]))
    /\ epc' = "treeform"
    /\ UNCHANGED <<ef, fcycles, fpath, fnodes, tried, cyclic, remaining,
                   ecycles, ancestors, ffunc, walk>>
    /\ UNCHANGED <<treeVars, canonVars, labelVars, structVars, lenVars, forestVars, consVars>>

\* DominantTree.from_func(f) with root=None: root = next(iter(f.limitset))
\* comes first, then ValueError if len(f.limitset) != 1; else the dominant
\* form of the levels, root level 0, of levels_from_preim
FromFunc ==
    /\ epc = "treeform"
    /\ LET limset == Elems(flatten(ecycles))
       IN  ffunc' =
             IF limset = {} THEN "StopIteration"
             ELSE IF Cardinality(limset) # 1 THEN "ValueError"
             ELSE canonical_treeorder(
                      attached_subtree_rec(CHOOSE x \in limset : TRUE, 0,
                          [y \in 1..Len(ef) |-> SetToSeq(ancestors[y])]))
    /\ epc' = "fromfunc"
    /\ UNCHANGED <<ef, fcycles, fpath, fnodes, tried, cyclic, remaining,
                   ecycles, ancestors, tform, walk>>
    /\ UNCHANGED <<treeVars, canonVars, labelVars, structVars, lenVars, forestVars, consVars>>

InitFunc == TreeIdle /\ CanonIdle /\ LabelIdle /\ StructIdle /\ LenIdle /\ ForestIdle /\ FuncInit /\ ConsIdle

NextFunc ==
    \/ FuncCycles
    \/ Imagepath
    \/ AttachedTreenodes
    \/ EnumStart
    \/ EnumWalk
    \/ EnumStop
    \/ TreeForm
    \/ FromFunc

SpecFunc == InitFunc /\ [][NextFunc]_vars

\* ------------------------------------------- constructors and their checks
\* Bijection.__init__ without its check
Bijection_init_nocheck(data) == "object"

\* Bijection.__init__ (and SymmetricFunction.__new__ of endofunctions.py):
\* ValueError unless len(self) == len(self.image)
Bijection_init(data) ==
    IF Len(data) # Cardinality(Elems(data)) THEN "ValueError" ELSE "object"

\* Endofunction.__init__: ValueError unless the domain contains the image
Endofunction_init(data) ==
    IF ~(Elems(data) \subseteq 0..(Len(data) - 1)) THEN "ValueError"
    ELSE "object"

\* the data given to a function constructor: values on range(n), taken
\* from range(n) and one more value outside of it; the node count given to
\* an enumerator: any integer, negative ones included
ConsInit ==
    /\ \/ /\ cclass \in {"Bijection", "SymmetricFunction",
                         "endofunctions.SymmetricFunction"}
          /\ carg \in UNION {[1..n -> 0..n] : n \in 0..MaxDataN}
       \/ /\ cclass \in {"RootedTrees", "forests_simple", "_parsed_domain",
                         "endofunctions.TransformationMonoid"}
          /\ carg \in (-MaxDataN)..MaxDataN
    /\ cresult = "none"
    /\ cyield = <<>>
    /\ conspc = "call"

\* Bijection(data) of funcstructs
NewBijection ==
    /\ conspc = "call"
    /\ cclass = "Bijection"
    /\ cresult' = Bijection_init(carg)
    /\ conspc' = "done"
    /\ UNCHANGED <<cclass, carg, cyield>>
    /\ UNCHANGED <<treeVars, canonVars, labelVars, structVars, lenVars, forestVars, funcVars>>

\* SymmetricFunction(data) of funcstructs: Endofunction.__init__ calls
\* Bijection.__init__, the next class in the method resolution order, and
\* then makes its own check
NewSymmetricFunction ==
    /\ conspc = "call"
    /\ cclass = "SymmetricFunction"
    /\ cresult' = IF Bijection_init(carg) = "ValueError" THEN "ValueError"
                  ELSE Endofunction_init(carg)
    /\ conspc' = "done"
    /\ UNCHANGED <<cclass, carg, cyield>>
    /\ UNCHANGED <<treeVars, canonVars, labelVars, structVars, lenVars, forestVars, funcVars>>

\* SymmetricFunction(func) of endofunction_structures/endofunctions.py: the
\* tuple is built without any check, then len(self) == len(self.image)
NewTupleSymmetricFunction ==
    /\ conspc = "call"
    /\ cclass = "endofunctions.SymmetricFunction"
    /\ cresult' = Bijection_init(carg)
    /\ conspc' = "done"
    /\ UNCHANGED <<cclass, carg, cyield>>
    /\ UNCHANGED <<treeVars, canonVars, labelVars, structVars, lenVars, forestVars, funcVars>>

\* list(RootedTrees(n)): __init__ stores n, __iter__ yields
\* [I+1 for I in range(n)] and enters the loop only if n > 2
IterRootedTrees ==
    /\ conspc = "call"
    /\ cclass = "RootedTrees"
    /\ cresult' = "object"
    /\ cyield' = TreesFrom(FirstTree(carg, 1))
    /\ conspc' = "done"
    /\ UNCHANGED <<cclass, carg>>
    /\ UNCHANGED <<treeVars, canonVars, labelVars, structVars, lenVars, forestVars, funcVars>>

\* list(forests_simple(N)): nothing if N == 0, else chop(tree) for every
\* tree of rooted_trees(N+1)
IterForestsSimple ==
    /\ conspc = "call"
    /\ cclass = "forests_simple"
    /\ cresult' = "object"
    /\ cyield' = IF carg = 0 THEN <<>>
                 ELSE LET trees == TreesFrom(FirstTree(carg + 1, 1))
                      IN  [i \in 1..Len(trees) |-> chop(trees[i])]
    /\ conspc' = "done"
    /\ UNCHANGED <<cclass, carg>>
    /\ UNCHANGED <<treeVars, canonVars, labelVars, structVars, lenVars, forestVars, funcVars>>

\* _parsed_domain(domain) in the constructors of Mappings, Isomorphisms,
\* TransformationMonoid and SymmetricGroup: ValueError if domain < 0
ParsedDomain ==
    /\ conspc = "call"
    /\ cclass = "_parsed_domain"
    /\ cresult' = IF carg < 0 THEN "ValueError" ELSE "object"
    /\ conspc' = "done"
    /\ UNCHANGED <<cclass, carg, cyield>>
    /\ UNCHANGED <<treeVars, canonVars, labelVars, structVars, lenVars, forestVars, funcVars>>

\* TransformationMonoid(set_size) of endofunctions.py: ValueError if
\* set_size < 1
NewTransformationMonoid ==
    /\ conspc = "call"
    /\ cclass = "endofunctions.TransformationMonoid"
    /\ cresult' = IF carg < 1 THEN "ValueError" ELSE "object"
    /\ conspc' = "done"
    /\ UNCHANGED <<cclass, carg, cyield>>
    /\ UNCHANGED <<treeVars, canonVars, labelVars, structVars, lenVars, forestVars, funcVars>>

InitCons == TreeIdle /\ CanonIdle /\ LabelIdle /\ StructIdle /\ LenIdle /\ ForestIdle /\ FuncIdle /\ ConsInit

NextCons ==
    \/ NewBijection
    \/ NewSymmetricFunction
    \/ NewTupleSymmetricFunction
    \/ IterRootedTrees
    \/ IterForestsSimple
    \/ ParsedDomain
    \/ NewTransformationMonoid

SpecCons == InitCons /\ [][NextCons]_vars

\* ------------------------------------------------------------- properties
\* EndofunctionStructureTest.counts: the number of endofunction structures
\* on 0, 1, 2, ... elements
counts == <<0, 1, 3, 7, 19, 47, 130, 343, 951, 2615, 7318, 20491, 57903>>

\* the labelled endofunctions on range(n) conjugate to f
Orbit(f) == {conj(s, f) : s \in Bijections(Len(f))}

\* C1: when endofunction_structures(n) has returned it has yielded
\* counts[n] structures (A001372), none for n = 0
C1_StructureCount ==
    spc = "done" =>
        /\ struct_count = counts[sn + 1]
        /\ Len(structs) = struct_count
        /\ sn = 0 => struct_count = 0

C1_Witness == spc = "done" /\ sn = 3 /\ struct_count = 7

\* C2: for n >= 1, when endofunction_structures(n) has returned the sum of
\* structure_multiplicity over the structures yielded is n**n
C2_MultiplicitySum ==
    (spc = "done" /\ sn >= 1) => func_count = Pow(sn, sn)

C2_Witness == spc = "done" /\ sn = 3 /\ Len(structs) = 7 /\ func_count = 27

\* C3: for n >= 1, when endofunction_structures(n) has returned, every
\* labelled endofunction on range(n) is conjugate to endofunction_to_func(S)
\* for exactly one of the structures S yielded: the orbits of the structures
\* are as many as the structures, and every endofunction lies in one orbit
C3_EveryClassOnce ==
    (spc = "done" /\ sn >= 1) =>
        LET orbits == {Orbit(endofunction_to_func(structs[i])) :
                          i \in DOMAIN structs}
        IN  /\ Cardinality(orbits) = Len(structs)
            /\ \A g \in [1..sn -> 0..(sn - 1)] :
                    Cardinality({o \in orbits : g \in o}) = 1

C3_Witness ==
    /\ spc = "done" /\ sn = 4 /\ Len(structs) = 19
    /\ \E i \in DOMAIN structs :
          <<1, 0, 3, 2>> \in Orbit(endofunction_to_func(structs[i]))

\* C4: the multiplicity of the structure just yielded is the number of
\* labelled endofunctions conjugate to endofunction_to_func of it
C4_MultiplicityIsOrbitSize ==
    sstruct # <<>> =>
        smult = Cardinality(Orbit(endofunction_to_func(sstruct)))

C4_Witness ==
    /\ sstruct = << <<(<<1>>), (<<1>>)>>, <<(<<1>>), (<<1>>)>> >>
    /\ smult = 3
    /\ Cardinality(Orbit(endofunction_to_func(sstruct))) = 3

\* TreeTest.A000081: the number of rooted trees on 1, 2, ... nodes
A000081 == <<1, 1, 2, 4, 9, 20, 48, 115, 286>>

\* C5: the trees yielded by the enumerator are pairwise distinct, and when it
\* returns their number is A000081(n); for n = 1 and n = 2 it is one tree
C5_TreeCount ==
    /\ \A i, j \in DOMAIN yielded : i # j => yielded[i] # yielded[j]
    /\ pc = "done" => Len(yielded) = A000081[node_count]
    /\ (pc = "done" /\ node_count <= 2) => Len(yielded) = 1

C5_Witness == pc = "done" /\ node_count = 6 /\ Len(yielded) = 20

RECURSIVE NonIncreasingBranches(_)
NonIncreasingBranches(t) ==
    LET bs == branches(t)
    IN  /\ \A i \in 1..(Len(bs) - 1) : ~ListLess(bs[i], bs[i + 1])
        /\ \A i \in DOMAIN bs : NonIncreasingBranches(bs[i])

\* C7: every tree the enumerator yields is left unchanged by
\* canonical_treeorder, and its branches are in non-increasing order at
\* every node
C7_YieldedIsCanonical ==
    tree # <<>> =>
        /\ canonical_treeorder(tree) = tree
        /\ NonIncreasingBranches(tree)

C7_Witness ==
    pc = "loop" /\ tree = <<1, 2, 3, 4, 2, 3, 2>> /\ canonical_treeorder(tree) = tree

\* the level sequences obtained from t by permuting the sibling subtrees at
\* any nodes
RECURSIVE Reorderings(_)
Reorderings(t) ==
    LET bs == branches(t)
        k == Len(bs)
    IN  IF k = 0 THEN {t}
        ELSE LET each == [i \in 1..k |-> Reorderings(bs[i])]
                 all == UNION {each[i] : i \in 1..k}
                 picks == {c \in [1..k -> all] : \A i \in 1..k : c[i] \in each[i]}
             IN  {<<At(t, 0)>> \o flatten([i \in 1..k |-> c[pi[i]]]) :
                      c \in picks, pi \in Permutations(1..k)}

\* C8: canonical_treeorder(L) is one of the sibling reorderings of L and no
\* reordering is lexicographically greater; every reordering of L is
\* canonicalized to the same sequence; a tree with no children is returned
\* unchanged
C8_CanonicalIsGreatest ==
    cpc = "done" =>
        LET R == Reorderings(ordered_tree)
        IN  /\ dominant_tree \in R
            /\ \A r \in R : ~ListLess(dominant_tree, r)
            /\ \A r \in R : canonical_treeorder(r) = dominant_tree
            /\ Len(ordered_tree) = 1 => dominant_tree = ordered_tree

C8_Witness ==
    /\ cpc = "done"
    /\ ordered_tree = <<1, 2, 3, 3, 4, 2>>
    /\ dominant_tree = <<1, 2, 3, 4, 3, 2>>

\* C9: when the enumerator has returned, the sum of n! // tree_degeneracy(T)
\* over the trees T it yielded is n**(n-1)
C9_LabelledTreeCount ==
    pc = "done" => labelled_treecount = Pow(node_count, node_count - 1)

C9_Witness ==
    pc = "done" /\ node_count = 5 /\ Len(yielded) = 9 /\ labelled_treecount = 625

\* the labelled trees on range(n) with the shape of t: every relabelling of
\* its functional form
LabelledTrees(t) ==
    {conj(s, func_form(t, Range(0, Len(t)))) : s \in Bijections(Len(t))}

\* the relabellings of t that give the labelled tree g
LabellingsOf(t, g) ==
    {s \in Bijections(Len(t)) : conj(s, func_form(t, Range(0, Len(t)))) = g}

\* C10 as stated: the degeneracy of T is the number of distinct labelled
\* trees with the shape of T
C10_DegeneracyIsLabelledCount ==
    lpc = "done" => ldeg = Cardinality(LabelledTrees(ltree))

\* C10: the degeneracy of T is the size of the automorphism group of T, the
\* number of relabellings that give one and the same labelled tree; the
\* number of distinct labelled trees with the shape of T is n! divided by it
C10_DegeneracyIsAutomorphismCount ==
    lpc = "done" =>
        /\ ldeg = Cardinality(LabellingsOf(ltree, rtreefunc))
        /\ ldeg * Cardinality(LabelledTrees(ltree)) = factorial(Len(ltree))

C10_Witness ==
    /\ lpc = "done"
    /\ ltree = <<1, 2, 2>>
    /\ lperm = <<1, 0, 2>>
    /\ rtreefunc = <<1, 1, 1>>
    /\ ldeg = 2
    /\ Cardinality(LabelledTrees(ltree)) = 3

\* C11: the degeneracy of T is n! divided by the number of distinct
\* labellings of T; it is 1 for a leaf and otherwise the product of the
\* degeneracies of the immediate subtrees, each counted with its
\* multiplicity, times the product of the factorials of the multiplicities
\* of identical immediate subtrees; both implementations agree
C11_DegeneracyRecurrence ==
    lpc = "done" =>
        LET n == Len(ltree)
            subs == chop(ltree)
            labellings == Cardinality(LabelledTrees(ltree))
        IN  /\ factorial(n) % labellings = 0
            /\ ldeg = factorial(n) \div labellings
            /\ subs = <<>> => ldeg = 1
            /\ ldeg = ProdOver(DOMAIN subs,
                               [i \in DOMAIN subs |-> tree_degeneracy(subs[i])])
                        * ProdOver(Elems(subs),
                                   [x \in Elems(subs) |-> factorial(Mult(subs, x))])
            /\ ldeg = dominant_degeneracy(ltree)

C11_Witness ==
    /\ lpc = "done"
    /\ ltree = <<1, 2, 3, 3>>
    /\ chop(ltree) = <<(<<1, 2, 2>>)>>
    /\ ldeg = 2
    /\ Cardinality(LabelledTrees(ltree)) = 12

\* C12: the count returned by _calculate_len / cardinality is the number of
\* trees the enumerator of the same n yields; every floor division by n-1
\* leaves no remainder; a term added for i >= n is zero
C12_ClosedFormCount ==
    /\ lenpc = "done" => lcount = Len(tree_tuples(len_n))
    /\ lrem = 0
    /\ (lenpc = "inner" /\ li > 1 /\ li - 1 >= ln) => ls = 0

C12_Witness ==
    /\ lenpc = "done"
    /\ len_n = 7
    /\ lcount = 48
    /\ T = <<0, 1, 1, 2, 4, 9, 20, 48>>

\* C13: forests_simple(n) and forests_complex(n) each yield A000081(n+1)
\* forests, pairwise distinct as tuples and as multisets of trees, every one
\* with n nodes in total; for n = 0 both yield nothing
C13_ForestCount ==
    /\ \A i, j \in DOMAIN fsimple :
          i # j => /\ fsimple[i] # fsimple[j]
                   /\ ordered(fsimple[i]) # ordered(fsimple[j])
    /\ \A i, j \in DOMAIN fcomplex :
          i # j => /\ fcomplex[i] # fcomplex[j]
                   /\ ordered(fcomplex[i]) # ordered(fcomplex[j])
    /\ \A i \in DOMAIN fsimple : Len(flatten(fsimple[i])) = fn
    /\ \A i \in DOMAIN fcomplex : Len(flatten(fcomplex[i])) = fn
    /\ (fpc = "done" /\ fn >= 1) =>
          /\ Len(fsimple) = A000081[fn + 1]
          /\ Len(fcomplex) = A000081[fn + 1]
    /\ (fpc = "done" /\ fn = 0) => (fsimple = <<>> /\ fcomplex = <<>>)

C13_Witness ==
    /\ fpc = "done"
    /\ fn = 4
    /\ Len(fsimple) = 9
    /\ Len(fcomplex) = 9
    /\ \E i \in DOMAIN fcomplex : fcomplex[i] = <<(<<1, 2>>), (<<1, 2>>)>>

\* C14: for a level sequence L with root level 1, tree_to_func(L) (and
\* func_form) is a list f as long as L with f[0] = 0 and f[i], for every
\* i > 0, the parent of node i: the largest index j < i with L[j] = L[i] - 1;
\* the 14-node example of testTreeToFunc
C14_TreeToFuncIsParent ==
    /\ cpc = "func" =>
          LET L == ordered_tree
              parent(i) ==
                  CHOOSE j \in 0..(i - 1) :
                      /\ At(L, j) = At(L, i) - 1
                      /\ \A k \in (j + 1)..(i - 1) : At(L, k) # At(L, i) - 1
          IN  /\ Len(treefunc) = Len(L)
              /\ At(treefunc, 0) = 0
              /\ \A i \in 1..(Len(L) - 1) : At(treefunc, i) = parent(i)
              /\ formfunc = treefunc
    /\ tree_to_func(<<1, 2, 3, 4, 4, 4, 3, 4, 4, 2, 3, 3, 2, 3>>, Range(0, 14))
          = <<0, 0, 1, 2, 2, 2, 1, 6, 6, 0, 9, 9, 0, 12>>

C14_Witness ==
    /\ cpc = "func"
    /\ ordered_tree = <<1, 2, 3, 3, 2, 3>>
    /\ treefunc = <<0, 0, 1, 1, 0, 4>>

\* C15: the tree T of rooted_trees(n), turned into a function, conjugated by
\* any permutation of range(n) and turned back by treefunc_to_tree, is T
C15_TreefuncRoundTrip ==
    lpc = "done" => rtree = ltree

\* the tree [1, 2, 3, 2] relabelled so that the leaf below the root gets a
\* smaller label than its sibling: the nodes attached to the root 2 are read
\* leaf first, and canonical_treeorder puts them back in order
C15_Witness ==
    /\ lpc = "done"
    /\ ltree = <<1, 2, 3, 2>>
    /\ lperm = <<2, 1, 3, 0>>
    /\ rtreefunc = <<2, 2, 2, 1>>
    /\ attached_treenodes(rtreefunc) = <<<<>>, (<<3>>), (<<0, 1>>), <<>>>>
    /\ rtree = <<1, 2, 3, 2>>

\* C16: every cycle c yielded by funccycles(f), and every cycle yielded by
\* Endofunction.enumerate_cycles whatever elements remaining.pop() takes, is
\* non-empty and has f[c[i]] = c[(i+1) mod len(c)] at every position i.
C16_CyclesAreCyclic ==
    LET CyclicIn(c) ==
            /\ c # <<>>
            /\ \A i \in 0..(Len(c) - 1) :
                  At(ef, At(c, i)) = At(c, (i + 1) % Len(c))
    IN  /\ epc \notin {"idle", "call"} =>
              \A k \in DOMAIN fcycles : CyclicIn(fcycles[k])
        /\ \A k \in DOMAIN ecycles : CyclicIn(ecycles[k])

\* the function 0 -> 1 -> 2 -> 0, 3 -> 0: both generators have yielded its
\* cycle of length three
C16_Witness ==
    /\ epc = "done"
    /\ ef = <<1, 2, 0, 0>>
    /\ fcycles = <<(<<2, 0, 1>>)>>
    /\ Len(ecycles) = 1
    /\ Len(ecycles[1]) = 3

\* C17: the cycles yielded by funccycles(f), and those yielded by
\* Endofunction.enumerate_cycles, are pairwise disjoint: no element occurs in
\* two of them or twice in one, and no cycle is yielded twice.
C17_CyclesAreDisjoint ==
    LET Disjoint(cs) ==
            /\ Cardinality(Elems(flatten(cs))) = Len(flatten(cs))
            /\ \A k, l \in DOMAIN cs : k # l => cs[k] # cs[l]
    IN  /\ epc \notin {"idle", "call"} => Disjoint(fcycles)
        /\ Disjoint(ecycles)

\* the function with the fixed point 0, the cycle 1 -> 2 -> 1 and 3 -> 1:
\* both generators have yielded two cycles
C17_Witness ==
    /\ epc = "done"
    /\ ef = <<0, 2, 1, 1>>
    /\ fcycles = <<(<<0>>), (<<2, 1>>)>>
    /\ Len(ecycles) = 2
    /\ \E k \in 1..2 : Len(ecycles[k]) = 2

\* C18: for an endofunction f on n >= 1 elements the cycles of funccycles(f)
\* hold as many elements as the last entry of imagepath(f), and they hold
\* exactly the elements x with f^k(x) = x for some k >= 1 (a k of at most n
\* when there is one).
C18_CyclesAreComplete ==
    (epc \notin {"idle", "call", "cycles"} /\ Len(ef) >= 1) =>
        LET n == Len(ef)
            els == flatten(fcycles)
        IN  /\ Len(els) = At(fpath, -1)
            /\ Elems(els) = {x \in 0..(n - 1) :
                               \E k \in 1..n : At(func_pow(ef, k), x) = x}

\* the function with the cycle 0 -> 1 -> 0 and the chain 3 -> 2 -> 0: the
\* images shrink from 3 to 2 elements, the two on the cycle
C18_Witness ==
    /\ epc = "done"
    /\ ef = <<1, 0, 0, 2>>
    /\ fpath = <<3, 2, 2>>
    /\ Elems(flatten(fcycles)) = {0, 1}
    /\ func_pow(ef, 2) = <<0, 1, 1, 0>>

\* C19: attached_treenodes(f)[y] lists, each once, exactly the x with
\* f[x] = y that lie on no cycle of f, so none of its elements is in the limit
\* set; Endofunction.acyclic_ancestors[y] is the same set.
C19_TreenodesAreNotCyclic ==
    LET n == Len(ef)
        OnCycle(x) == \E k \in 1..n : At(func_pow(ef, k), x) = x
        Acyclic(y) == {x \in 0..(n - 1) : At(ef, x) = y /\ ~OnCycle(x)}
    IN  /\ epc \in {"nodes", "enum", "done"} =>
              /\ Len(fnodes) = n
              /\ \A y \in 0..(n - 1) :
                    /\ Elems(At(fnodes, y)) = Acyclic(y)
                    /\ Len(At(fnodes, y)) = Cardinality(Acyclic(y))
                    /\ Elems(At(fnodes, y)) \cap Elems(limitset(ef)) = {}
        /\ epc = "done" =>
              /\ Len(ancestors) = n
              /\ \A y \in 0..(n - 1) : At(ancestors, y) = Acyclic(y)

\* the function with the cycle 0 -> 1 -> 0 and the chain 3 -> 2 -> 0: of the
\* two preimages of 0 only 2 is attached, and 3 is attached to 2
C19_Witness ==
    /\ epc = "done"
    /\ ef = <<1, 0, 0, 2>>
    /\ preimage(ef) = <<(<<1, 2>>), (<<0>>), (<<3>>), <<>>>>
    /\ fnodes = <<(<<2>>), <<>>, (<<3>>), <<>>>>
    /\ ancestors = <<{2}, {}, {3}, {}>>

C21_ImagedistEqualsBrute ==
    (spc = "done" /\ sn >= 2) => M = iterate_imagedist_brute(sn)

\* n = 4: the matrix of EndofunctionTest.iterate_imagedists, with its 24
\* permutations in the last row and 4 constant maps first in the first row
C21_Witness ==
    /\ spc = "done"
    /\ sn = 4
    /\ M = <<(<<4, 40, 64>>), (<<84, 120, 96>>), (<<144, 72, 72>>),
             (<<24, 24, 24>>)>>

\* C22: for the structure S just yielded, with n nodes in all,
\* f = endofunction_to_func(S) is a list of length n over range(n); the trees
\* of S lie in consecutive blocks in order, every node that is not a root
\* maps to its parent inside its block, and the roots of the trees of a
\* cycle map to one another in cycle order, the last to the first.  The
\* structure of testEndofunctionToFunc gives the list of that test.
C22_EndofunctionToFuncLayout ==
    /\ sstruct # <<>> =>
          LET f == endofunction_to_func(sstruct)
              trees == unpack(sstruct)
              Start(k) == Len(flatten(SubSeq(trees, 1, k - 1)))
              Off(c) == Len(flatten(SubSeq(sstruct, 1, c - 1)))
              parent(t, i) ==
                  CHOOSE j \in 0..(i - 1) :
                      /\ At(t, j) = At(t, i) - 1
                      /\ \A k \in (j + 1)..(i - 1) : At(t, k) # At(t, i) - 1
          IN  /\ Len(f) = sn
              /\ Len(flatten(trees)) = sn
              /\ \A x \in 0..(sn - 1) : At(f, x) \in 0..(sn - 1)
              /\ \A k \in DOMAIN trees :
                    \A i \in 1..(Len(trees[k]) - 1) :
                        At(f, Start(k) + i) = Start(k) + parent(trees[k], i)
              /\ \A c \in DOMAIN sstruct :
                    \A j \in 1..Len(sstruct[c]) :
                        At(f, Start(Off(c) + j))
                            = Start(Off(c) + (j % Len(sstruct[c])) + 1)
    /\ endofunction_to_func(
           << <<(<<1, 2, 3>>), (<<1, 2, 2>>)>>, <<(<<1, 2>>)>>,
              <<(<<1, 2, 2>>), (<<1>>), (<<1, 2, 2>>)>> >>)
         = <<3, 0, 1, 0, 3, 3, 6, 6, 11, 8, 8, 12, 8, 12, 12>>

\* n = 5: a fixed point and a cycle of the trees [1] and [1, 2, 3]; the
\* root 1 maps to the root 2 and back, 3 and 4 hang below 2
C22_Witness ==
    /\ spc = "loop"
    /\ sn = 5
    /\ sstruct = << <<(<<1>>)>>, <<(<<1>>), (<<1, 2, 3>>)>> >>
    /\ endofunction_to_func(sstruct) = <<0, 2, 1, 2, 3>>

\* C23: every object obtained from a tree enumerator keeps the value it had
\* when it was yielded, however far the enumerator is advanced afterwards,
\* so the objects collected are the A000081(n) distinct trees.
C23_YieldedAreFresh ==
    /\ collected = yielded
    /\ pc = "done" => Cardinality(Elems(collected)) = A000081[node_count]

\* C24 as stated: a SymmetricFunction or Bijection is constructed only when
\* the image of the data equals its domain; otherwise ValueError is raised.
C24_ConstructedOnlyIfImageIsDomain ==
    (conspc = "done" /\ cclass \in {"Bijection", "SymmetricFunction",
                                    "endofunctions.SymmetricFunction"}) =>
        (cresult = "object" <=> Elems(carg) = 0..(Len(carg) - 1))

\* C24 amended: SymmetricFunction of funcstructs is constructed exactly when
\* the image of the data equals its domain; Bijection, and SymmetricFunction
\* of endofunctions.py, exactly when the image has as many elements as the
\* domain, which for data with all values in the domain is the same; in
\* every other case ValueError is raised and there is no object.
C24_ConstructedOnlyIfInvertible ==
    (conspc = "done" /\ cclass \in {"Bijection", "SymmetricFunction",
                                    "endofunctions.SymmetricFunction"}) =>
        LET domain == 0..(Len(carg) - 1)
            image == Elems(carg)
        IN  /\ cresult \in {"object", "ValueError"}
            /\ cclass = "SymmetricFunction" =>
                  (cresult = "object" <=> image = domain)
            /\ cclass # "SymmetricFunction" =>
                  (cresult = "object"
                      <=> Cardinality(image) = Cardinality(domain))
            /\ image \subseteq domain =>
                  (cresult = "object" <=> image = domain)

\* the constant map on three elements is refused as a SymmetricFunction
C24_Witness ==
    /\ conspc = "done"
    /\ cclass = "SymmetricFunction"
    /\ carg = <<0, 0, 0>>
    /\ cresult = "ValueError"

\* C25: asked for the rooted-tree form of ef without a root, tree_form and
\* from_func raise ValueError whenever ef does not have exactly one cyclic
\* element, and return the canonical tree attached to that element otherwise
\* (tree_form with root level 1, from_func with root level 0).
C25_TreeFormOrValueError ==
    epc = "fromfunc" =>
        LET n == Len(ef)
            cyc == {x \in 0..(n - 1) :
                       \E k \in 1..n : At(func_pow(ef, k), x) = x}
        IN  IF Cardinality(cyc) # 1
            THEN tform = "ValueError" /\ ffunc = "ValueError"
            ELSE /\ tform = treefunc_to_tree(ef)
                 /\ ffunc = [i \in 1..n |-> treefunc_to_tree(ef)[i] - 1]

\* C26: a negative node count given to RootedTrees, forests_simple or one of
\* the function enumerators is refused with an error, and nothing is yielded.
C26_NegativeCountRejected ==
    (conspc = "done" /\ cclass \in {"RootedTrees", "forests_simple",
                                    "_parsed_domain",
                                    "endofunctions.TransformationMonoid"}) =>
        (carg < 0 => cresult # "object" /\ cyield = <<>>)


\* C27: each advance of the tree successor changes only a suffix. With p the
\* largest index whose level differs from tree[1] and q the largest index
\* below p with tree[q] < tree[p] (both taken in the tree before the
\* advance), the entries 0..p-1 are left unchanged and every entry i in
\* p..n-1 becomes the old entry i-(p-q), which is the block tree[q..p-1]
\* repeated; and every sequence produced is a valid level sequence: entry 0
\* is the root level, every later entry lies above the root level and is at
\* most one more than its predecessor.
C27_AdvanceChangesOnlySuffix ==
    LET Largest(S) == CHOOSE i \in S : \A j \in S : j <= i
        LargestP(t) == Largest({i \in 0..(Len(t) - 1) : At(t, i) # At(t, 1)})
        LargestQ(t, pp) == Largest({i \in 0..(pp - 1) : At(t, i) < At(t, pp)})
        Repeated(t, pp, qq, i) == At(t, qq + ((i - pp) % (pp - qq)))
        Frame(old, new, pp, qq) ==
            /\ Len(new) = Len(old)
            /\ \A i \in 0..(pp - 1) : At(new, i) = At(old, i)
            /\ \A i \in pp..(Len(old) - 1) :
                   /\ At(new, i) = At(new, i - (pp - qq))
                   /\ At(new, i) = Repeated(old, pp, qq, i)
        IsLevelSequence(t) ==
            /\ At(t, 0) = root_height
            /\ \A i \in 1..(Len(t) - 1) :
                   At(t, i) > root_height /\ At(t, i) <= At(t, i - 1) + 1
    IN  /\ \A k \in 1..Len(yielded) : IsLevelSequence(yielded[k])
        /\ \A k \in 1..(Len(yielded) - 1) :
               LET old == yielded[k]
                   pp == LargestP(old)
               IN  Frame(old, yielded[k + 1], pp, LargestQ(old, pp))
        /\ Len(yielded) >= 2 =>
               LET old == yielded[Len(yielded) - 1]
               IN  /\ p = LargestP(old)
                   /\ q = LargestQ(old, p)
                   /\ tree = yielded[Len(yielded)]

\* an advance on six nodes with p = 3 and q = 1: the block <<2, 3>> at
\* indices 1..2 is repeated over the places 3..5
C27_Witness ==
    /\ node_count = 6 /\ root_height = 1 /\ pc = "loop"
    /\ Len(yielded) >= 2
    /\ yielded[Len(yielded) - 1] = <<1, 2, 3, 3, 2, 2>>
    /\ tree = <<1, 2, 3, 2, 3, 2>>
    /\ p = 3 /\ q = 1


\* C28: for every n >= 1 the enumeration terminates after finitely many
\* advances, and in every advance both backward scans stop inside the array:
\* 2 <= p <= n-1 and 1 <= q < p, so that no index reaches 0, goes negative
\* (wrapping around) or passes the end.
C28_ScansStayInsideAndTerminate ==
    /\ [](Len(yielded) >= 2 =>
              /\ 2 <= p /\ p <= node_count - 1
              /\ 1 <= q /\ q < p)
    /\ [](Len(yielded) < 2 => p = 0 /\ q = 0)
    /\ <>(pc = "done")

\* the enumeration of the seven-node trees has returned, its last advance
\* having stopped the scans at p = 2 and q = 1
C28_Witness ==
    /\ pc = "done" /\ node_count = 7 /\ Len(yielded) = 48
    /\ p = 2 /\ q = 1
    /\ tree = <<root_height, root_height + 1, root_height + 1,
                root_height + 1, root_height + 1, root_height + 1,
                root_height + 1>>


\* C29: in Endofunction.enumerate_cycles on a function of n elements, every
\* pass of the inner loop adds one element to tried that was not in it (an
\* element once tried is never walked again, so the inner loop runs exactly n
\* times over the whole run), remaining is always the domain without tried,
\* the run ends with remaining empty and tried the whole domain, and a cycle
\* is yielded exactly by a walk that returns to a node first visited in the
\* path of that same walk.
C29_EachElementTriedOnce ==
    [][LET n == Len(ef)
           \* the nodes a walk adds to tried: its path without the final node
           Walked(path) == SubSeq(path, 1, Len(path) - 1)
           Closes(path) ==
               \E i \in 1..(Len(path) - 1) : path[i] = path[Len(path)]
           CycleOf(path) ==
               LET index == CHOOSE i \in 1..Len(path) :
                               /\ path[i] = path[Len(path)]
                               /\ \A j \in 1..(i - 1) : path[j] # path[Len(path)]
               IN  SubSeq(path, index + 1, Len(path))
           added == Walked(walk')
           Pass ==
               /\ Len(walk') >= 2
               /\ walk'[1] \in remaining
               /\ \A i, j \in 1..Len(added) : added[i] = added[j] => i = j
               /\ Elems(added) \cap tried = {}
               /\ tried' = tried \cup Elems(added)
               /\ \A i \in 1..Len(added) : walk'[i + 1] = At(ef, added[i])
               /\ IF Closes(walk') /\ walk'[Len(walk')] \notin tried
                  THEN ecycles' = Append(ecycles, CycleOf(walk'))
                  ELSE /\ ecycles' = ecycles
                       /\ ~Closes(walk')
                       /\ walk'[Len(walk')] \in tried
       IN  /\ (epc = "enum" /\ epc' = "enum") => Pass
           /\ epc' = "enum" =>
                  /\ remaining' = (0..(n - 1)) \ tried'
                  /\ Cardinality(tried') + Cardinality(remaining') = n
                  /\ remaining' = {} => tried' = 0..(n - 1)
           /\ epc' = "done" => remaining' = {} /\ tried' = 0..(n - 1)
      ]_vars

\* on f = [1, 0, 0, 2] the walk from 3 runs 3, 2, 0, 1, 0 and closes the
\* cycle [1, 0]; all four elements are tried after this one walk
C29_Witness ==
    /\ epc = "enum" /\ ef = <<1, 0, 0, 2>>
    /\ walk = <<3, 2, 0, 1, 0>>
    /\ ecycles = << <<1, 0>> >>
    /\ tried = 0..3 /\ remaining = {}


\* C30: the canonical DominantTree value is unique per unordered tree shape
\* across the enumerators: every tree contained in a forest yielded by
\* ForestEnumerator(n) is value-equal to a tree yielded by TreeEnumerator(k)
\* for its node count k.
C30_ForestTreesAreEnumeratorTrees ==
    \A i \in 1..Len(fenum) : \A j \in 1..Len(fenum[i]) :
        LET t == fenum[i][j]
        IN  t \in Elems(TreesFrom(FirstTree(Len(t), 0)))

====
